---- MODULE Spec2Model ----
(***************************************************************************)
(* The two-stage Common Crawl news pipeline.                               *)
(*   Stage 1  warc_extractor.py: CommonCrawlWarcExtractor.process scans an *)
(*            archive and submits one RecordProcessorWrapper.process task  *)
(*            per accepted response record to a ThreadPoolExecutor.        *)
(*   Stage 2  warc_extracted_files_processor.py: process_warc_content_dir  *)
(*            walks the Stage-1 tree and submits one                       *)
(*            ContentProcessorWrapper.process_warc_content task per file.  *)
(* Strings the code splits or parses are sequences of tokens in which      *)
(* every delimiter is a token of its own; an optional value is a sequence  *)
(* of length 0 (None) or 1.                                                *)
(***************************************************************************)
EXTENDS Integers, Sequences, FiniteSets, TLC

VARIABLES
    archive,         \* the records ArchiveIterator yields, in order
    now,             \* the wall clock, in seconds
    store,           \* the file system: path -> file content
    runs,            \* how many times Stage 1 has been started
    prevOutput,      \* the file system as it was when the current run started
    pc1,             \* where CommonCrawlWarcExtractor.process is
    idx,             \* index of the next record of the archive
    num_processed1,  \* process's local num_processed
    futures1,        \* process's list futures, with each task's state
    leave1,          \* how the "with executor" block of process is being left
    ret1,            \* what process gave its caller
    stop_sites,      \* the module-level skip list of Stage 2
    pc2,             \* where process_warc_content_dir is
    todo,            \* files os.walk has still to yield
    num_processed2,  \* process_warc_content_dir's local num_processed
    futures2,        \* its list futures, with each task's state
    leave2,          \* how its "with executor" block is being left
    ret2             \* what process_warc_content_dir gave its caller

vars == <<archive, now, store, runs, prevOutput,
          pc1, idx, num_processed1, futures1, leave1, ret1,
          stop_sites, pc2, todo, num_processed2, futures2, leave2, ret2>>

stage1 == <<pc1, idx, num_processed1, futures1, leave1, ret1>>
stage2 == <<stop_sites, pc2, todo, num_processed2, futures2, leave2, ret2>>

----------------------------------------------------------------------------
(* Bounds of the model. *)

MaxArchiveLen == 2
MaxTime == 1
MaxRuns == 2

----------------------------------------------------------------------------
(* Program constants. *)

DATASET_NEWS_CC == "news-cc"
WARC_EXTRACT_DIR == "warc-extract"
PROCESSED_CONTENT_DIR == "processed-content"
JSON_OUT_FILE_EXT == ".json"

\* Python's None where the value is otherwise a string.
None == "None"

----------------------------------------------------------------------------
(* Pure helpers: the library conversions the code applies. *)

\* s.split(sep): the pieces of s between the occurrences of the token sep.
RECURSIVE Split(_, _)
Split(s, sep) ==
    IF \A i \in 1..Len(s) : s[i] # sep
    THEN <<s>>
    ELSE LET i == CHOOSE k \in 1..Len(s) :
                      s[k] = sep /\ \A j \in 1..(k - 1) : s[j] # sep
         IN  <<SubSeq(s, 1, i - 1)>> \o Split(SubSeq(s, i + 1, Len(s)), sep)

\* warc_record_id.split(":")[-1].split(">")[0]
DatasetId(warc_record_id) ==
    LET byColon == Split(warc_record_id, ":")
        last    == byColon[Len(byColon)]
    IN  Split(last, ">")[1]

\* urlparse(uri).netloc: what follows "//", up to the path; "" without "//".
Netloc(uri) == IF Len(uri) >= 3 /\ uri[2] = "//" THEN uri[3] ELSE ""

\* int(s) for the Content-Length values of the model; int(None) raises
\* TypeError, int of a string that is no numeral raises ValueError.
IsNumeric(s) == s \in {"120", "95", "0"}
IntOf(s) == CASE s = "120" -> 120
              [] s = "95"  -> 95
              [] s = "0"   -> 0

\* bytes.decode("utf-8", "ignore"): bytes that are no valid UTF-8 are dropped
\* (bodies of the model are single-byte: every byte above 127 is invalid).
IsValidUtf8Byte(b) == b < 128
Decode(bytes) == SelectSeq(bytes, IsValidUtf8Byte)

\* datetime.strftime('%Y-%m-%dT%H:%M:%SZ'): the seconds, without microseconds
\* or offset.
Strftime(dt) == <<"ts", dt.secs, "Z">>

\* datetime.datetime.now() read at second t.
ClockReading(t) == [secs |-> t, micros |-> 0]

----------------------------------------------------------------------------
(* The file system: a function from the paths that exist to file contents. *)

\* A file holds a whole JSON document, or a proper prefix of one's text
\* (nothing at all right after open(path, "w+")), or the text of one document
\* followed by the tail of a longer text that was in the file before.
TruncatedFile == [kind |-> "truncated", doc |-> <<>>]
JsonFile(data) == [kind |-> "json", doc |-> <<data>>]
MixedFile(data, tail) == [kind |-> "mixed", doc |-> <<data, tail>>]

\* len(json.dumps(data)), counted in the one value whose width differs
\* between the documents written to one path: the page of a RawCapture, the
\* main text of an ArticleRecord.
DumpsLen(data) ==
    IF "article_html" \in DOMAIN data
    THEN Len(data.article_html)
    ELSE Len(data.content)

\* The length of the text a file holds.
TextLen(file) ==
    CASE file.kind = "truncated" -> 0
      [] file.kind = "json"      -> DumpsLen(file.doc[1])
      [] file.kind = "mixed"     -> DumpsLen(file.doc[2])

\* os.path.join(*dirs, file_name), below the run's root directory: an empty
\* component adds no level.
PathOf(dir, domain, file_name) ==
    IF domain = "" THEN <<dir, file_name>> ELSE <<dir, domain, file_name>>

\* os.path.basename
BaseName(path) == path[Len(path)]

Exists(fs, path) == path \in DOMAIN fs
FilePut(fs, path, content) ==
    [p \in DOMAIN fs \cup {path} |-> IF p = path THEN content ELSE fs[p]]

\* write_json_to_file up to open(path, "w+"): the file exists and is empty.
OpenTruncate(fs, path) == FilePut(fs, path, TruncatedFile)

\* What a file opened with "w+" holds after the text of data was written
\* from the handle's own offset 0 over what the file held by then: the file
\* is not truncated again, so a longer text keeps its tail.
Overwrite(file, data) ==
    IF TextLen(file) > DumpsLen(data)
    THEN MixedFile(data, file.doc[Len(file.doc)])
    ELSE JsonFile(data)

\* write_json_to_file from json.dumps to the close of the file: the whole
\* text is written, or the write raised OSError before any of it was
\* (the file-system failure of the model: the disk is full).
WriteOutcomes == {"ok", "OSError"}
WriteJson(fs, path, data, outcome) ==
    FilePut(fs, path, IF outcome = "ok" THEN Overwrite(fs[path], data) ELSE fs[path])

\* The files below a stage's directory.
FilesUnder(fs, dir) == {p \in DOMAIN fs : p[1] = dir}

----------------------------------------------------------------------------
(* The archives of the model: what ArchiveIterator yields. *)

WarcRecord(type, id, uri, len, body) ==
    [rec_type |-> type,
     record_id |-> <<"<urn", ":", "uuid", ":", id, ">">>,   \* WARC-Record-ID
     target_uri |-> uri,                                    \* WARC-Target-URI
     warc_date |-> "2023-01-01T00:00:00Z",                  \* WARC-Date
     content_length |-> len,                                \* Content-Length
     body |-> body]

NoUri == <<>>
UriA == <<"http:", "//", "news.example.com", "/a">>
UriB == <<"http:", "//", "other.example.org", "/b">>
\* A URI that has no "//": urlparse gives it no host.
UriNoHost == <<"mailto:", "ed@example.com">>

\* The body of a record whose content_stream().read() raises.
UnreadableBody == <<-1>>

ArchiveRecords ==
    { WarcRecord("response", "abcd-1234", UriA, "120", <<60, 72, 255, 62>>),
      WarcRecord("response", "ef-5678", UriB, "95", <<60, 62>>),
      WarcRecord("response", "zero-0", UriA, "0", <<>>),
      WarcRecord("response", "nouri-1", NoUri, "120", <<60, 62>>),
      WarcRecord("response", "nolen-2", UriA, None, <<60, 62>>),
      WarcRecord("request", "req-3", UriA, "120", <<71>>),
      WarcRecord("metadata", "meta-4", UriA, "120", <<77>>) }

\* WARC-Record-IDs are unique: an archive holds no record twice.
Archives ==
    { a \in UNION { [1..n -> ArchiveRecords] : n \in 0..MaxArchiveLen } :
        \A i, j \in DOMAIN a : i # j => a[i] # a[j] }

\* Records a Common Crawl archive does not usually hold, which process takes
\* all the same: a second capture under the WARC-Record-ID and host of
\* another with a shorter page, a response whose URI has no host, a
\* Content-Length that is no numeral, a body that cannot be read.
OddRecords ==
    { WarcRecord("response", "abcd-1234", UriA, "95", <<60, 62>>),
      WarcRecord("response", "nohost-5", UriNoHost, "120", <<60, 62>>),
      WarcRecord("response", "badlen-6", UriA, "12x", <<60, 62>>),
      WarcRecord("response", "noread-7", UriA, "120", UnreadableBody) }

\* Any archive process can be given.
AnyArchives ==
    { a \in UNION { [1..n -> ArchiveRecords \cup OddRecords] :
                        n \in 0..MaxArchiveLen } :
        \A i, j \in DOMAIN a : i # j => a[i] # a[j] }

----------------------------------------------------------------------------
(* Tasks and futures, as both stages use them. *)

\* The exceptions a task body can raise; all derive from Exception.
ExceptionSubclasses ==
    {"OSError", "JSONDecodeError", "ValidationError", "TypeError", "ExtractorError"}

\* A handler that names one exception class only.
TaskCatchesOSErrorOnly(e) == e = "OSError"

\* "except Exception as e" around a task body: which exceptions it catches.
TaskCatches(e) == e \in ExceptionSubclasses

\* A task whose body raised e: caught and logged, or left in its future.
\* A finished task keeps none of its local variables.
TaskRaised(task, e) ==
    IF TaskCatches(e)
    THEN [task EXCEPT !.st = "done", !.data = <<>>, !.logged = <<e>>]
    ELSE [task EXCEPT !.st = "done", !.data = <<>>, !.exc = <<e>>]

TaskReturned(task) == [task EXCEPT !.st = "done", !.data = <<>>]

AllDone(futures) == \A i \in DOMAIN futures : futures[i].st = "done"

\* An executor left with shutdown(wait=False): the exit waits for nothing.
ExecutorExitNoWait(futures) == TRUE

\* ThreadPoolExecutor.__exit__ is shutdown(wait=True): it returns once every
\* submitted task has finished.
ExecutorExitReady(futures) == AllDone(futures)

\* future.result() over as_completed(futures): re-raises a task's exception.
SomeResultRaises(futures) == \E i \in DOMAIN futures : futures[i].exc # <<>>

ReturnedNone == [isNone |-> TRUE, value |-> 0]
ReturnedInt(n) == [isNone |-> FALSE, value |-> n]

----------------------------------------------------------------------------
(* Stage 1: warc_extractor.py *)

\* RecordProcessorWrapper.__init__
RecordProcessorWrapper(id, uri, length, date, domain, article_html) ==
    [warc_record_id |-> id,
     warc_target_uri |-> uri,
     warc_content_length |-> length,
     warc_date |-> date,
     domain |-> domain,
     article_html |-> article_html,
     st |-> "pending", data |-> <<>>, exc |-> <<>>, logged |-> <<>>]

\* A dict whose page is read from the archive stream by the task, at the
\* record the iterator has reached by then.
RawCaptureReadsStream(self, t) ==
    [dataset_id |-> DatasetId(self.warc_record_id),
     dataset |-> DATASET_NEWS_CC,
     dataset_content_length |-> self.warc_content_length,
     uri |-> self.warc_target_uri,
     warc_sourced_date |-> self.warc_date,
     warc_extracted_date |-> Strftime(ClockReading(t)),
     domain |-> self.domain,
     article_html |-> Decode(IF idx \in DOMAIN archive
                             THEN archive[idx].body
                             ELSE <<>>)]

\* A dict whose warc_sourced_date is stamped from the clock as well.
RawCaptureSourcedNow(self, t) ==
    [dataset_id |-> DatasetId(self.warc_record_id),
     dataset |-> DATASET_NEWS_CC,
     dataset_content_length |-> self.warc_content_length,
     uri |-> self.warc_target_uri,
     warc_sourced_date |-> Strftime(ClockReading(t)),
     warc_extracted_date |-> Strftime(ClockReading(t)),
     domain |-> self.domain,
     article_html |-> Decode(self.article_html)]

\* The dict RecordProcessorWrapper.process builds, the clock read at second t.
RawCapture(self, t) ==
    [dataset_id |-> DatasetId(self.warc_record_id),
     dataset |-> DATASET_NEWS_CC,
     dataset_content_length |-> self.warc_content_length,
     uri |-> self.warc_target_uri,
     warc_sourced_date |-> self.warc_date,
     warc_extracted_date |-> Strftime(ClockReading(t)),
     domain |-> self.domain,
     article_html |-> Decode(self.article_html)]

FileName(dataset_id) == dataset_id \o <<JSON_OUT_FILE_EXT>>

ExtractPath(self) ==
    PathOf(WARC_EXTRACT_DIR, self.domain, FileName(DatasetId(self.warc_record_id)))

\* A type test that takes metadata records for responses.
IsResponseOrMetadata(record) == record.rec_type \in {"response", "metadata"}

\* "if record.rec_type == 'response'"; a request record has left the
\* iteration by "continue" before.
IsResponse(record) == record.rec_type = "response"

\* The validation of a response record in the scan loop.
IsRejected(record) ==
    record.target_uri = NoUri \/ IntOf(record.content_length) <= 0

\* int(warc_content_length) is reached and raises TypeError or ValueError.
ValidationRaises(record) ==
    record.target_uri # NoUri /\ ~IsNumeric(record.content_length)

\* record.content_stream().read() raises.
ReadRaises(record) == record.body = UnreadableBody

\* An exception leaves the iteration before the record's task is submitted.
BuildRaises(record) ==
    IF ValidationRaises(record)
    THEN TRUE
    ELSE ~IsRejected(record) /\ ReadRaises(record)

\* CommonCrawlWarcExtractor.process up to the scan: os.makedirs of the root.
Start1 ==
    /\ pc1 \in {"idle", "returned", "raised"}
    /\ pc2 = "idle"
    /\ runs < MaxRuns
    /\ runs' = runs + 1
    /\ prevOutput' = store
    /\ \/ /\ pc1' = "scan"
          /\ idx' = 1
          /\ num_processed1' = 0
          /\ futures1' = <<>>
          /\ leave1' = "none"
          /\ ret1' = <<>>
       \/ /\ pc1' = "exited"        \* OSError: exit(1)
          /\ UNCHANGED <<idx, num_processed1, futures1, leave1, ret1>>
    /\ UNCHANGED <<archive, now, store, stage2>>

\* One iteration of "for record in ArchiveIterator(stream)".
Scan1 ==
    /\ pc1 = "scan"
    /\ idx <= Len(archive)
    /\ LET record == archive[idx] IN
       \/ /\ ~IsResponse(record)                   \* continue, or no branch taken
          /\ idx' = idx + 1
          /\ UNCHANGED <<pc1, num_processed1, futures1, leave1>>
       \/ /\ IsResponse(record)
          /\ BuildRaises(record)
          /\ pc1' = "shutdown"
          /\ leave1' = "raise"
          /\ UNCHANGED <<idx, num_processed1, futures1>>
       \/ /\ IsResponse(record)
          /\ ~ValidationRaises(record)
          /\ IsRejected(record)
          /\ pc1' = "shutdown"
          /\ leave1' = "return"
          /\ UNCHANGED <<idx, num_processed1, futures1>>
       \/ /\ IsResponse(record)
          /\ ~BuildRaises(record)
          /\ ~IsRejected(record)
          /\ num_processed1' = num_processed1 + 1
          /\ futures1' = Append(futures1,
                 RecordProcessorWrapper(record.record_id, record.target_uri,
                     record.content_length, record.warc_date,
                     Netloc(record.target_uri), record.body))
          /\ idx' = idx + 1
          /\ UNCHANGED <<pc1, leave1>>
    /\ UNCHANGED <<archive, now, store, runs, prevOutput, ret1, stage2>>

\* The iterator is exhausted: the "with executor" block ends.
ScanEnd1 ==
    /\ pc1 = "scan"
    /\ idx > Len(archive)
    /\ pc1' = "shutdown"
    /\ leave1' = "fallthrough"
    /\ UNCHANGED <<archive, now, store, runs, prevOutput,
                   idx, num_processed1, futures1, ret1, stage2>>

\* ThreadPoolExecutor.__exit__, then what left the block goes on.
Shutdown1 ==
    /\ pc1 = "shutdown"
    /\ ExecutorExitReady(futures1)
    /\ \/ /\ leave1 = "return"
          /\ pc1' = "returned"
          /\ ret1' = <<ReturnedNone>>
       \/ /\ leave1 = "raise"
          /\ pc1' = "raised"
          /\ ret1' = ret1
       \/ /\ leave1 = "fallthrough"
          /\ pc1' = "collect"
          /\ ret1' = ret1
    /\ UNCHANGED <<archive, now, store, runs, prevOutput,
                   idx, num_processed1, futures1, leave1, stage2>>

\* "for future in as_completed(futures): future.result()", then the return.
Collect1 ==
    /\ pc1 = "collect"
    /\ AllDone(futures1)
    /\ \/ /\ SomeResultRaises(futures1)
          /\ pc1' = "raised"
          /\ leave1' = "result"
          /\ ret1' = ret1
       \/ /\ ~SomeResultRaises(futures1)
          /\ pc1' = "returned"
          /\ leave1' = leave1
          /\ ret1' = <<ReturnedInt(num_processed1)>>
    /\ UNCHANGED <<archive, now, store, runs, prevOutput,
                   idx, num_processed1, futures1, stage2>>

\* RecordProcessorWrapper.process from its start to open(path, "w+").
Task1Open(i) ==
    /\ futures1[i].st = "pending"
    /\ \E t \in now..MaxTime :
         /\ now' = t
         /\ store' = OpenTruncate(store, ExtractPath(futures1[i]))
         /\ futures1' = [futures1 EXCEPT ![i] =
                [@ EXCEPT !.st = "opened",
                          !.data = <<RawCapture(futures1[i], t)>>]]
    /\ UNCHANGED <<archive, runs, prevOutput,
                   pc1, idx, num_processed1, leave1, ret1, stage2>>

\* RecordProcessorWrapper.process from json.dumps to its end.
Task1Write(i) ==
    /\ futures1[i].st = "opened"
    /\ \E outcome \in WriteOutcomes :
         /\ store' = WriteJson(store, ExtractPath(futures1[i]),
                               futures1[i].data[1], outcome)
         /\ futures1' = [futures1 EXCEPT ![i] =
                IF outcome = "ok" THEN TaskReturned(@) ELSE TaskRaised(@, "OSError")]
    /\ UNCHANGED <<archive, now, runs, prevOutput,
                   pc1, idx, num_processed1, leave1, ret1, stage2>>

Task1 == \E i \in DOMAIN futures1 : Task1Open(i) \/ Task1Write(i)

\* The first run of Stage 1 over the archive.
FirstStart1 == runs = 0 /\ Start1

----------------------------------------------------------------------------
(* Stage 2: warc_extracted_files_processor.py *)

\* What NewsPlease.from_html can give for a page: a NewscrawlerItem whose
\* maintext and date_publish may be None, or an exception.
NewscrawlerItem(maintext, date_publish) ==
    [raises |-> FALSE, title |-> "Hi", authors |-> <<"Ann">>,
     maintext |-> maintext, description |-> None, image_url |-> None,
     language |-> "en", date_publish |-> date_publish]

ExtractorRaises == [NewscrawlerItem(<<>>, <<>>) EXCEPT !.raises = TRUE]

MainText == <<"n", "e", "w", "s">>
PublishDate == [secs |-> 7, micros |-> 250]

ExtractorResults ==
    { NewscrawlerItem(<<MainText>>, <<PublishDate>>),
      NewscrawlerItem(<<MainText>>, <<>>),
      NewscrawlerItem(<<>>, <<PublishDate>>),
      ExtractorRaises }

\* str.endswith on a tokenised file name.
EndsWith(file_name, suffix) ==
    Len(file_name) > 0 /\ file_name[Len(file_name)] = suffix

\* NewsPleaseAdapter._process_article: len(None) raises TypeError.
ProcessArticleRaises(article) == article.maintext = <<>>

\* A dict whose content_length counts the authors.
ProcessArticleCountsAuthors(article, url) ==
    [title |-> article.title,
     authors |-> article.authors,
     content |-> article.maintext[1],
     excerpt |-> article.description,
     content_length |-> Len(article.authors),
     published_date |-> IF article.date_publish # <<>>
                        THEN <<Strftime(article.date_publish[1])>>
                        ELSE <<>>,
     url |-> url,
     domain |-> Netloc(url),
     media |-> article.image_url,
     language |-> article.language]

\* NewsPleaseAdapter._process_article
ProcessArticle(article, url) ==
    [title |-> article.title,
     authors |-> article.authors,
     content |-> article.maintext[1],
     excerpt |-> article.description,
     content_length |-> Len(article.maintext[1]),
     published_date |-> IF article.date_publish # <<>>
                        THEN <<Strftime(article.date_publish[1])>>
                        ELSE <<>>,
     url |-> url,
     domain |-> Netloc(url),
     media |-> article.image_url,
     language |-> article.language]

\* pydantic reading a 'YYYY-MM-DDTHH:MM:SSZ' string into a datetime field.
ParseDatetime(str) == [secs |-> str[2], micros |-> 0]

\* Article(**fields): the declared field published_date: datetime is required
\* and takes no None; title, content, language and domain are str.
ArticleRejects(fields) ==
    \/ fields.published_date = <<>>
    \/ fields.title = None
    \/ fields.language = None

\* Article(**fields).dict(): the validated fields, published_date a datetime.
ArticleDict(fields) ==
    [fields EXCEPT !.published_date = <<ParseDatetime(fields.published_date[1])>>]

\* A meta_info whose warc_extracted_date is stamped anew.
MetaInfoRestamped(warc_extract, t) ==
    [dataset_id |-> warc_extract.dataset_id,
     dataset |-> warc_extract.dataset,
     dataset_content_length |-> warc_extract.dataset_content_length,
     warc_sourced_date |-> warc_extract.warc_sourced_date,
     warc_extracted_date |-> Strftime(ClockReading(t)),
     warc_processed_date |-> Strftime(ClockReading(t))]

\* meta_info as process_warc_content builds it, the clock read at second t.
MetaInfo(warc_extract, t) ==
    [dataset_id |-> warc_extract.dataset_id,
     dataset |-> warc_extract.dataset,
     dataset_content_length |-> warc_extract.dataset_content_length,
     warc_sourced_date |-> warc_extract.warc_sourced_date,
     warc_extracted_date |-> warc_extract.warc_extracted_date,
     warc_processed_date |-> Strftime(ClockReading(t))]

\* article_json as process_warc_content writes it.
ArticleJson(article_dict, meta_info) ==
    LET dated == IF article_dict.published_date # <<>>
                 THEN [article_dict EXCEPT
                          !.published_date = <<Strftime(@[1])>>]
                 ELSE article_dict
    IN  [url |-> dated.url, title |-> dated.title, authors |-> dated.authors,
         content |-> dated.content, excerpt |-> dated.excerpt,
         content_length |-> dated.content_length,
         published_date |-> dated.published_date,
         language |-> dated.language, domain |-> dated.domain,
         media |-> dated.media, meta_info |-> meta_info]

\* The output path of a run whose two directory names are configured alike.
ProcessedPathInExtractDir(warc_extract) ==
    PathOf(WARC_EXTRACT_DIR, warc_extract.domain,
           FileName(warc_extract.dataset_id))

\* [self.root_dir, PROCESSED_CONTENT_DIR, domain] and file_name joined.
ProcessedPath(warc_extract) ==
    PathOf(PROCESSED_CONTENT_DIR, warc_extract.domain,
           FileName(warc_extract.dataset_id))

\* A skip check that never skips.
InStopSitesNever(domain) == FALSE

\* "if domain in stop_sites"
InStopSites(domain) == domain \in stop_sites

\* ContentProcessorWrapper.__init__
ContentProcessorWrapper(file_name) ==
    [file_name |-> file_name,
     st |-> "pending", data |-> <<>>, exc |-> <<>>, logged |-> <<>>,
     got |-> <<>>]

\* futures.append(executor.submit(...)): the list futures, kept by the file
\* each task is for (the order of the list is never used).
Submit2(futures, task) ==
    [f \in DOMAIN futures \cup {task.file_name} |->
        IF f = task.file_name THEN task ELSE futures[f]]

\* The skip lists a run can be configured with.
StopSiteChoices == {{}, {"news.example.com"}}

\* process_warc_content_dir up to the walk; the module's stop_sites is set.
Start2 ==
    /\ pc2 = "idle"
    /\ pc1 \in {"returned", "raised"}
    /\ pc2' = "walk"
    /\ stop_sites' \in StopSiteChoices
    /\ todo' = FilesUnder(store, WARC_EXTRACT_DIR)
    /\ num_processed2' = 0
    /\ futures2' = <<>>
    /\ prevOutput' = store
    /\ UNCHANGED <<archive, now, store, runs, stage1, leave2, ret2>>

\* One file that os.walk yields, in no particular order.
Walk2 ==
    /\ pc2 = "walk"
    /\ \E full_path \in todo :
         /\ todo' = todo \ {full_path}
         /\ IF EndsWith(BaseName(full_path), JSON_OUT_FILE_EXT)
            THEN /\ num_processed2' = num_processed2 + 1
                 /\ futures2' = Submit2(futures2, ContentProcessorWrapper(full_path))
            ELSE UNCHANGED <<num_processed2, futures2>>
    /\ UNCHANGED <<archive, now, store, runs, prevOutput, stage1,
                   stop_sites, pc2, leave2, ret2>>

\* The walk is over: the "with executor" block ends.
WalkEnd2 ==
    /\ pc2 = "walk"
    /\ todo = {}
    /\ pc2' = "shutdown"
    /\ leave2' = "fallthrough"
    /\ UNCHANGED <<archive, now, store, runs, prevOutput, stage1,
                   stop_sites, todo, num_processed2, futures2, ret2>>

\* ThreadPoolExecutor.__exit__
Shutdown2 ==
    /\ pc2 = "shutdown"
    /\ ExecutorExitReady(futures2)
    /\ pc2' = "collect"
    /\ UNCHANGED <<archive, now, store, runs, prevOutput, stage1,
                   stop_sites, todo, num_processed2, futures2, leave2, ret2>>

\* The as_completed loop inside "try", its "except Exception", the return.
Collect2 ==
    /\ pc2 = "collect"
    /\ AllDone(futures2)
    /\ pc2' = "returned"
    /\ leave2' = IF SomeResultRaises(futures2) THEN "except" ELSE leave2
    /\ ret2' = <<ReturnedInt(num_processed2)>>
    /\ UNCHANGED <<archive, now, store, runs, prevOutput, stage1,
                   stop_sites, todo, num_processed2, futures2>>

\* process_warc_content from its start to open(path, "w+") of the output.
Task2Open(i) ==
    /\ futures2[i].st = "pending"
    /\ LET self == futures2[i]
           file == store[self.file_name]
           Finish(task) == /\ futures2' = [futures2 EXCEPT ![i] = task]
                           /\ UNCHANGED <<now, store>>
       IN
       IF file.kind # "json"
       THEN Finish(TaskRaised(self, "JSONDecodeError"))
       ELSE LET warc_extract == file.doc[1] IN
            IF InStopSites(warc_extract.domain)
            THEN Finish(TaskReturned(self))
            ELSE \E article \in ExtractorResults :
                   LET seen == [self EXCEPT !.got = <<article>>] IN
                   IF article.raises
                   THEN Finish(TaskRaised(seen, "ExtractorError"))
                   ELSE IF ProcessArticleRaises(article)
                   THEN Finish(TaskRaised(seen, "TypeError"))
                   ELSE IF ArticleRejects(ProcessArticle(article, warc_extract.uri))
                   THEN Finish(TaskRaised(seen, "ValidationError"))
                   ELSE \E t \in now..MaxTime :
                          LET article_json ==
                                ArticleJson(
                                  ArticleDict(ProcessArticle(article, warc_extract.uri)),
                                  MetaInfo(warc_extract, t))
                          IN
                          /\ now' = t
                          /\ store' = OpenTruncate(store, ProcessedPath(warc_extract))
                          /\ futures2' = [futures2 EXCEPT ![i] =
                                 [seen EXCEPT !.st = "opened",
                                              !.data = <<article_json>>]]
    /\ UNCHANGED <<archive, runs, prevOutput, stage1,
                   stop_sites, pc2, todo, num_processed2, leave2, ret2>>

\* process_warc_content from json.dumps to its end.
Task2Write(i) ==
    /\ futures2[i].st = "opened"
    /\ \E outcome \in WriteOutcomes :
         /\ store' = WriteJson(store,
                               ProcessedPath(store[futures2[i].file_name].doc[1]),
                               futures2[i].data[1], outcome)
         /\ futures2' = [futures2 EXCEPT ![i] =
                IF outcome = "ok" THEN TaskReturned(@) ELSE TaskRaised(@, "OSError")]
    /\ UNCHANGED <<archive, now, runs, prevOutput, stage1,
                   stop_sites, pc2, todo, num_processed2, leave2, ret2>>

Task2 == \E i \in DOMAIN futures2 : Task2Open(i) \/ Task2Write(i)

----------------------------------------------------------------------------

Init ==
    /\ archive \in Archives
    /\ now = 0
    /\ store = <<>>
    /\ runs = 0
    /\ prevOutput = <<>>
    /\ pc1 = "idle"
    /\ idx = 1
    /\ num_processed1 = 0
    /\ futures1 = <<>>
    /\ leave1 = "none"
    /\ ret1 = <<>>
    /\ stop_sites = {}
    /\ pc2 = "idle"
    /\ todo = {}
    /\ num_processed2 = 0
    /\ futures2 = <<>>
    /\ leave2 = "none"
    /\ ret2 = <<>>

\* One pass of the pipeline: Stage 1 over the archive, then Stage 2 over
\* what Stage 1 left.
Next ==
    \/ FirstStart1 \/ Scan1 \/ ScanEnd1 \/ Shutdown1 \/ Collect1 \/ Task1
    \/ Start2 \/ Walk2 \/ WalkEnd2 \/ Shutdown2 \/ Collect2 \/ Task2

\* Stage 1 run again and again over the same archive.
NextRerun == Start1 \/ Scan1 \/ ScanEnd1 \/ Shutdown1 \/ Collect1 \/ Task1

\* Stage 1 before it is given an archive, whichever that is.
InitExtract ==
    /\ archive \in AnyArchives
    /\ now = 0
    /\ store = <<>>
    /\ runs = 0
    /\ prevOutput = <<>>
    /\ pc1 = "idle"
    /\ idx = 1
    /\ num_processed1 = 0
    /\ futures1 = <<>>
    /\ leave1 = "none"
    /\ ret1 = <<>>
    /\ stop_sites = {}
    /\ pc2 = "idle"
    /\ todo = {}
    /\ num_processed2 = 0
    /\ futures2 = <<>>
    /\ leave2 = "none"
    /\ ret2 = <<>>

\* One run of Stage 1.
NextExtract ==
    FirstStart1 \/ Scan1 \/ ScanEnd1 \/ Shutdown1 \/ Collect1 \/ Task1

Spec == Init /\ [][Next]_vars

RerunSpec == Init /\ [][NextRerun]_vars

ExtractSpec == InitExtract /\ [][NextExtract]_vars

\* A step of a stage that has been started: of its main thread, or of a
\* worker of its pool on a task that was submitted.
Progress ==
    \/ Scan1 \/ ScanEnd1 \/ Shutdown1 \/ Collect1 \/ Task1
    \/ Walk2 \/ WalkEnd2 \/ Shutdown2 \/ Collect2 \/ Task2

\* The threads of a started stage keep being scheduled; when a stage is
\* started is up to its caller.
Fairness == WF_vars(Progress)

FairSpec == Spec /\ Fairness

----------------------------------------------------------------------------
(* What the claims speak of. *)

\* The trailing opaque token of a WARC-Record-ID "<urn:uuid:TOKEN>".
TrailingToken(record_id) == <<record_id[Len(record_id) - 1]>>

\* A response record with a target URI and a positive declared length.
ValidResponse(record) ==
    /\ record.rec_type = "response"
    /\ record.target_uri # NoUri
    /\ IsNumeric(record.content_length)
    /\ IntOf(record.content_length) > 0

\* A response record with no target URI or a length that is not positive.
InvalidResponse(record) ==
    /\ record.rec_type = "response"
    /\ \/ record.target_uri = NoUri
       \/ IsNumeric(record.content_length) /\ IntOf(record.content_length) <= 0

\* Where the extract stage is to hold a record, and the files that do.
ExtractKey(record) ==
    PathOf(WARC_EXTRACT_DIR, Netloc(record.target_uri),
           FileName(TrailingToken(record.record_id)))

RawCapturesOf(record) ==
    { p \in FilesUnder(store, WARC_EXTRACT_DIR) :
        /\ store[p].kind = "json"
        /\ store[p].doc[1].dataset_id = TrailingToken(record.record_id) }

\* No file operation of a Stage-1 task failed in this run.
NoIOFault1 == \A i \in DOMAIN futures1 : futures1[i].logged = <<>>

Stage1Over == pc1 \in {"returned", "raised"}

\* An orchestrator has been started and has not yet given control back.
Running ==
    \/ pc1 \in {"scan", "shutdown", "collect"}
    \/ pc2 \in {"walk", "shutdown", "collect"}

\* The RawCaptures the extract stage holds.
RawCaptureFiles ==
    { p \in FilesUnder(store, WARC_EXTRACT_DIR) : store[p].kind = "json" }

ProcessedKey(p) ==
    PathOf(PROCESSED_CONTENT_DIR, store[p].doc[1].domain, BaseName(p))

HoldsArticle(q) == Exists(store, q) /\ store[q].kind = "json"

\* The extractor returned a result for the task of file p, and no file
\* operation of the task failed.
Extracted(p) ==
    /\ p \in DOMAIN futures2
    /\ futures2[p].got # <<>>
    /\ ~futures2[p].got[1].raises
    /\ futures2[p].logged # <<"OSError">>

----------------------------------------------------------------------------
(* The claims. *)

\* C1 (as claimed): after process has run, every response record with a
\* target URI and a positive declared length, wherever it stands in the
\* archive, has exactly one stored RawCapture, at key (domain, recordId),
\* whose dataset_id is the trailing token of its WARC-Record-ID.
C1_EveryValidResponseStored ==
    (Stage1Over /\ NoIOFault1) =>
        \A k \in DOMAIN archive :
            ValidResponse(archive[k]) =>
                /\ RawCapturesOf(archive[k]) = {ExtractKey(archive[k])}
                /\ store[ExtractKey(archive[k])].doc[1].dataset_id
                       = TrailingToken(archive[k].record_id)

\* C2 (as claimed): an invalid response record is the only record skipped:
\* no file is written for it, and every later record is examined and, if
\* valid, submitted as a task.
C2_InvalidRecordOnlySkipped ==
    Stage1Over =>
        \A k \in DOMAIN archive :
            InvalidResponse(archive[k]) =>
                /\ RawCapturesOf(archive[k]) = {}
                /\ \A j \in (k + 1)..Len(archive) :
                      /\ idx > j
                      /\ ValidResponse(archive[j]) =>
                            \E i \in DOMAIN futures1 :
                                futures1[i].warc_record_id = archive[j].record_id

\* C3 (as claimed): after process_warc_content_dir has run, every RawCapture
\* whose domain is not in stop_sites has an ArticleRecord at the same
\* (domain, recordId) key whose meta_info.dataset_id is the input's
\* dataset_id, whatever result the extractor returned for it.
C3_EveryCaptureEnriched ==
    pc2 = "returned" =>
        \A p \in RawCaptureFiles :
            (store[p].doc[1].domain \notin stop_sites /\ Extracted(p)) =>
                /\ HoldsArticle(ProcessedKey(p))
                /\ store[ProcessedKey(p)].doc[1].meta_info.dataset_id
                       = store[p].doc[1].dataset_id

\* C4: in both stages an exception raised inside a task is caught inside
\* that task: no future holds an exception, future.result() never raises
\* (Stage 1 is not left through it, Stage 2 never enters its own except
\* clause), every task has run to completion when the stage is over, and
\* a task in which nothing was raised has its own document in its file.
C4_TaskExceptionsContained ==
    /\ \A i \in DOMAIN futures1 : futures1[i].exc = <<>>
    /\ \A f \in DOMAIN futures2 : futures2[f].exc = <<>>
    /\ leave1 # "result"
    /\ leave2 # "except"
    /\ Stage1Over =>
         \A i \in DOMAIN futures1 :
            /\ futures1[i].st = "done"
            /\ futures1[i].logged = <<>> =>
                  \E t \in 0..MaxTime :
                     store[ExtractPath(futures1[i])]
                        = JsonFile(RawCapture(futures1[i], t))
    /\ pc2 = "returned" =>
         \A f \in DOMAIN futures2 :
            /\ futures2[f].st = "done"
            /\ (futures2[f].logged = <<>> /\ futures2[f].got # <<>>) =>
                  /\ HoldsArticle(ProcessedKey(f))
                  /\ store[ProcessedKey(f)].doc[1].meta_info.dataset_id
                        = store[f].doc[1].dataset_id

\* C4's case: both stages are over, in each a task raised and was logged
\* while a sibling task wrote its document.
C4_Witness ==
    /\ pc1 = "returned"
    /\ pc2 = "returned"
    /\ \E i, j \in DOMAIN futures1 :
          /\ futures1[i].logged # <<>>
          /\ futures1[j].logged = <<>>
    /\ \E f, g \in DOMAIN futures2 :
          /\ futures2[f].logged # <<>>
          /\ futures2[g].logged = <<>>
          /\ HoldsArticle(ProcessedKey(g))

\* C5: whenever an orchestrator has given control back to its caller, by
\* its normal return, by the early return or by an exception of the scan,
\* every task it submitted has finished; and an orchestrator that has been
\* started eventually gives control back.
C5_ReturnsOnceAllTasksFinished ==
    /\ [](/\ Stage1Over => AllDone(futures1)
          /\ pc2 = "returned" => AllDone(futures2))
    /\ Running ~> ~Running

\* C5's case: Stage 1 was left by the early return or by an exception of
\* the scan after it had submitted a task.
C5_Witness ==
    /\ Stage1Over
    /\ leave1 \in {"return", "raise"}
    /\ futures1 # <<>>

\* C6 (as claimed): the count an orchestrator returns is the number of tasks
\* it submitted during the run, on every run that returns.
C6_CountIsTasksSubmitted ==
    /\ pc1 = "returned" => ret1 = <<ReturnedInt(Len(futures1))>>
    /\ pc2 = "returned" => ret2 = <<ReturnedInt(Cardinality(DOMAIN futures2))>>

\* C7: for a RawCapture whose domain is in stop_sites, Stage 2 writes no
\* file in the processed stage and leaves its Stage-1 file as it was; the
\* captures of other domains are still handed to the extractor and, when
\* nothing fails, stored.
C7_SkipListedUntouched ==
    pc2 # "idle" =>
        /\ \A p \in RawCaptureFiles :
              store[p].doc[1].domain \in stop_sites =>
                  /\ ~Exists(store, ProcessedKey(p))
                  /\ store[p] = prevOutput[p]
        /\ pc2 = "returned" =>
              \A p \in RawCaptureFiles :
                  store[p].doc[1].domain \notin stop_sites =>
                      /\ p \in DOMAIN futures2
                      /\ futures2[p].got # <<>>
                      /\ futures2[p].logged = <<>> => HoldsArticle(ProcessedKey(p))

\* C7's case: Stage 2 is over, one capture was skip-listed and a capture of
\* another domain has its ArticleRecord.
C7_Witness ==
    /\ pc2 = "returned"
    /\ \E p, q \in RawCaptureFiles :
          /\ store[p].doc[1].domain \in stop_sites
          /\ store[q].doc[1].domain \notin stop_sites
          /\ HoldsArticle(ProcessedKey(q))

\* C8 (as claimed): when a step of the enrichment of a capture fails with an
\* exception, the record is dropped and the processed stage holds no partial
\* ArticleRecord for its key: the file of a task that failed is absent or
\* holds one complete document, never an empty or truncated one.
C8_NoPartialArticleRecord ==
    \A p \in DOMAIN futures2 :
        (futures2[p].st = "done" /\ futures2[p].logged # <<>>
           /\ store[p].kind = "json") =>
            \/ ~Exists(store, ProcessedKey(p))
            \/ store[ProcessedKey(p)].kind = "json"

\* The extractor's date as the stored record is to show it.
FormattedDate(date_publish) == <<"ts", date_publish.secs, "Z">>

\* C9 (as claimed): for a capture the extractor returned a main text for,
\* Stage 2 stores an ArticleRecord whose published_date is null when the
\* extractor returned no date, and the returned date formatted as
\* "YYYY-MM-DDTHH:MM:SSZ" when it returned one.
C9_PublishedDateAsExtracted ==
    pc2 = "returned" =>
        \A p \in RawCaptureFiles :
            (Extracted(p) /\ futures2[p].got[1].maintext # <<>>) =>
                /\ HoldsArticle(ProcessedKey(p))
                /\ store[ProcessedKey(p)].doc[1].published_date =
                      IF futures2[p].got[1].date_publish = <<>>
                      THEN <<>>
                      ELSE <<FormattedDate(futures2[p].got[1].date_publish[1])>>

\* A file the run before and the current run of Stage 1 both wrote in full.
WrittenByBothRuns(p) ==
    /\ p \in DOMAIN prevOutput
    /\ prevOutput[p].kind = "json"
    /\ store[p].kind = "json"

\* C10 (as claimed): when Stage 1 has run again over the same archive, every
\* extract-stage file holds the document the run before wrote, in every
\* field.
C10_RerunIdentical ==
    (pc1 = "returned" /\ runs >= 2) =>
        \A p \in FilesUnder(store, WARC_EXTRACT_DIR) :
            WrittenByBothRuns(p) => store[p] = prevOutput[p]

\* C10 (amended): when Stage 1 has run again over the same archive, every
\* extract-stage file both runs wrote in full holds the document the run
\* before wrote in every field but warc_extracted_date, which is the clock
\* reading of the run that wrote it last.
C10_RerunIdenticalButExtractedDate ==
    (pc1 = "returned" /\ runs >= 2) =>
        \A p \in FilesUnder(store, WARC_EXTRACT_DIR) :
            WrittenByBothRuns(p) =>
                [store[p].doc[1] EXCEPT !.warc_extracted_date =
                    prevOutput[p].doc[1].warc_extracted_date]
                  = prevOutput[p].doc[1]

\* C10's case: the second run has returned and a file it wrote again
\* carries a later warc_extracted_date than the first run gave it.
C10_Witness ==
    /\ pc1 = "returned"
    /\ runs = 2
    /\ \E p \in FilesUnder(store, WARC_EXTRACT_DIR) :
          /\ WrittenByBothRuns(p)
          /\ store[p].doc[1].warc_extracted_date[2]
               > prevOutput[p].doc[1].warc_extracted_date[2]

\* The documents a task of Stage 1 can write, one for each clock reading.
DocumentsOf(task) == { RawCapture(task, t) : t \in 0..MaxTime }

\* C11 (as claimed): when Stage 1 is over and no write failed, the file of
\* every key holds in full the document of one of the tasks that put to
\* that key: one of the two when two tasks put to the same key in whatever
\* order their open and write steps came, the task's own when it was the
\* only one to put to its key.
C11_LastWriterWins ==
    (Stage1Over /\ NoIOFault1) =>
        \A i \in DOMAIN futures1 :
            LET path == ExtractPath(futures1[i])
                writers == { j \in DOMAIN futures1 :
                                ExtractPath(futures1[j]) = path }
            IN  \E j \in writers :
                    \E data \in DocumentsOf(futures1[j]) :
                        store[path] = JsonFile(data)

\* C12 (as claimed): every stored RawCapture has a domain that is not empty
\* and is the host of its uri, and a response record whose target URI is
\* present but has no host has no stored file.
C12_StoredDomainIsHost ==
    /\ \A p \in RawCaptureFiles :
          /\ store[p].doc[1].domain # ""
          /\ store[p].doc[1].domain = Netloc(store[p].doc[1].uri)
    /\ \A k \in DOMAIN archive :
          (/\ IsResponse(archive[k])
           /\ archive[k].target_uri # NoUri
           /\ Netloc(archive[k].target_uri) = "") =>
              RawCapturesOf(archive[k]) = {}

\* The ArticleRecords the processed stage holds.
ArticleFiles ==
    { q \in FilesUnder(store, PROCESSED_CONTENT_DIR) : store[q].kind = "json" }

\* C13: every stored ArticleRecord was built from the RawCapture at its own
\* key, and its meta_info holds that RawCapture's dataset_id, dataset,
\* dataset_content_length, warc_sourced_date and warc_extracted_date as they
\* are there, and a warc_processed_date that is a clock reading of Stage 2,
\* not earlier than the extraction; this with the tasks of Stage 2 running
\* in any interleaving.
C13_LineageCarried ==
    \A q \in ArticleFiles :
        \E p \in RawCaptureFiles :
            LET meta_info == store[q].doc[1].meta_info
                capture   == store[p].doc[1]
            IN  /\ ProcessedKey(p) = q
                /\ meta_info.dataset_id = capture.dataset_id
                /\ meta_info.dataset = capture.dataset
                /\ meta_info.dataset_content_length = capture.dataset_content_length
                /\ meta_info.warc_sourced_date = capture.warc_sourced_date
                /\ meta_info.warc_extracted_date = capture.warc_extracted_date
                /\ \E t \in capture.warc_extracted_date[2]..MaxTime :
                      meta_info.warc_processed_date = Strftime(ClockReading(t))

\* C13's case: Stage 2 is over and holds the ArticleRecords of two captures
\* that differ in dataset_id, dataset_content_length and warc_extracted_date,
\* one of them stamped later than it was extracted.
C13_Witness ==
    /\ pc2 = "returned"
    /\ \E q, r \in ArticleFiles :
          LET m == store[q].doc[1].meta_info
              n == store[r].doc[1].meta_info
          IN  /\ m.dataset_id # n.dataset_id
              /\ m.dataset_content_length # n.dataset_content_length
              /\ m.warc_extracted_date # n.warc_extracted_date
              /\ m.warc_processed_date # m.warc_extracted_date

\* C14: in every stored ArticleRecord content_length is the number of
\* characters of content.
C14_ContentLengthIsLength ==
    \A q \in ArticleFiles :
        store[q].doc[1].content_length = Len(store[q].doc[1].content)

\* C14's case: Stage 2 is over and holds an ArticleRecord with the main text
\* the extractor returned and its length.
C14_Witness ==
    /\ pc2 = "returned"
    /\ \E q \in ArticleFiles :
          /\ store[q].doc[1].content = MainText
          /\ store[q].doc[1].content_length = 4

\* A response record that passes the validation and whose body can be read.
Submittable(record) ==
    /\ IsResponse(record)
    /\ ~BuildRaises(record)
    /\ ~IsRejected(record)

\* A response record for which building the task raises on the scanning
\* thread: no or no numeric Content-Length, or a body that cannot be read.
FailsBeforeSubmit(record) == IsResponse(record) /\ BuildRaises(record)

\* C15 (as claimed): when Stage 1 is over on an archive that holds no
\* invalid record, a record that failed before its task was submitted is
\* the only record dropped: the scan went on to the end of the archive,
\* every other record that can be submitted has its task, and process
\* returned its count.
C15_FailureBeforeSubmitDropsRecordOnly ==
    (Stage1Over /\ \A k \in DOMAIN archive : ~InvalidResponse(archive[k])) =>
        \A k \in DOMAIN archive :
            FailsBeforeSubmit(archive[k]) =>
                /\ idx > Len(archive)
                /\ \A j \in DOMAIN archive :
                      Submittable(archive[j]) =>
                          \E i \in DOMAIN futures1 :
                              futures1[i].warc_record_id = archive[j].record_id
                /\ ret1 = <<ReturnedInt(num_processed1)>>

\* The records of the archive the scan has gone past.
Scanned == { k \in DOMAIN archive : k < idx }

\* C16: for an archive record whose type is not "response" (a request, a
\* metadata record) Stage 1 submits no task and writes no file, and it does
\* not count it: num_processed is the number of response records the scan has
\* gone past. Such a record does not stop the scan: the scan is left early
\* only at a response record, and otherwise only past the last record.
C16_NonResponseIgnored ==
    /\ \A k \in DOMAIN archive :
          archive[k].rec_type # "response" =>
              /\ \A i \in DOMAIN futures1 :
                    futures1[i].warc_record_id # archive[k].record_id
              /\ \A p \in FilesUnder(store, WARC_EXTRACT_DIR) :
                    BaseName(p) # FileName(TrailingToken(archive[k].record_id))
    /\ pc1 # "exited" =>
          /\ num_processed1 =
                Cardinality({ k \in Scanned : archive[k].rec_type = "response" })
          /\ num_processed1 = Len(futures1)
    /\ leave1 \in {"return", "raise"} =>
          /\ idx \in DOMAIN archive
          /\ archive[idx].rec_type = "response"
    /\ leave1 = "fallthrough" => idx > Len(archive)

\* C16's case: Stage 1 has returned its count from an archive in which a
\* record that is not a response stands before a response, which was stored.
C16_Witness ==
    /\ pc1 = "returned"
    /\ ret1 = <<ReturnedInt(1)>>
    /\ \E k, j \in DOMAIN archive :
          /\ k < j
          /\ archive[k].rec_type # "response"
          /\ RawCapturesOf(archive[j]) # {}

\* C17: from the start of process_warc_content_dir on, and so after it has
\* returned, the extract stage holds the files it held when Stage 2 was
\* started, each with the content it had then; the two stages' directory
\* names differ.
C17_ExtractStageUntouched ==
    /\ WARC_EXTRACT_DIR # PROCESSED_CONTENT_DIR
    /\ pc2 # "idle" =>
          /\ FilesUnder(store, WARC_EXTRACT_DIR)
                = FilesUnder(prevOutput, WARC_EXTRACT_DIR)
          /\ \A p \in FilesUnder(store, WARC_EXTRACT_DIR) :
                store[p] = prevOutput[p]

\* C17's case: Stage 2 has returned, and of the Stage-1 files one was
\* enriched while another was skip-listed or its task failed.
C17_Witness ==
    /\ pc2 = "returned"
    /\ \E p, q \in DOMAIN futures2 :
          /\ futures2[p].logged = <<>>
          /\ futures2[p].got # <<>>
          /\ HoldsArticle(ProcessedKey(p))
          /\ \/ futures2[q].logged # <<>>
             \/ store[q].doc[1].domain \in stop_sites

\* The document of a record as the archive gives it: its headers, its host
\* and its whole body without the bytes that are no UTF-8, extracted at
\* second t.
CaptureOf(record, t) ==
    [dataset_id |-> TrailingToken(record.record_id),
     dataset |-> DATASET_NEWS_CC,
     dataset_content_length |-> record.content_length,
     uri |-> record.target_uri,
     warc_sourced_date |-> record.warc_date,
     warc_extracted_date |-> <<"ts", t, "Z">>,
     domain |-> Netloc(record.target_uri),
     article_html |-> SelectSeq(record.body, IsValidUtf8Byte)]

\* A task of the current run that has written its document in full.
Wrote(i) ==
    /\ futures1[i].st = "done"
    /\ futures1[i].logged = <<>>

\* C18 (as claimed): the document a task writes for a record is the same
\* under every interleaving: a task of a later run over the same archive
\* writes, for a record the run before wrote in full, the very document
\* that run wrote.
C18_SameUnderEveryInterleaving ==
    runs >= 2 =>
        \A i \in DOMAIN futures1 :
            LET path == ExtractPath(futures1[i]) IN
            (Wrote(i) /\ path \in DOMAIN prevOutput
               /\ prevOutput[path].kind = "json") =>
                store[path] = prevOutput[path]

\* C18 (amended): every task holds the headers and the whole body of a
\* record the scan has gone past, as the scanning thread read them before it
\* submitted the task; no step of a task moves or changes the stream; and
\* the document a task has written is its record's in every field, with a
\* warc_extracted_date that is the clock reading of the task, whichever way
\* the tasks and the scan were interleaved.
C18_DocumentOfRecordButExtractedDate ==
    /\ [](\A i \in DOMAIN futures1 :
            \E k \in Scanned :
                /\ futures1[i].warc_record_id = archive[k].record_id
                /\ futures1[i].warc_target_uri = archive[k].target_uri
                /\ futures1[i].warc_content_length = archive[k].content_length
                /\ futures1[i].warc_date = archive[k].warc_date
                /\ futures1[i].article_html = archive[k].body
                /\ Wrote(i) =>
                      \E t \in 0..MaxTime :
                          store[ExtractPath(futures1[i])]
                              = JsonFile(CaptureOf(archive[k], t)))
    /\ [][Task1 => UNCHANGED <<archive, idx>>]_vars

\* C18's case: in a second run a task has written its document while the
\* scan was still going, and the document differs from the one the first run
\* wrote for the record.
C18_Witness ==
    /\ runs = 2
    /\ pc1 = "scan"
    /\ idx <= Len(archive)
    /\ \E i \in DOMAIN futures1 :
          LET path == ExtractPath(futures1[i]) IN
          /\ Wrote(i)
          /\ path \in DOMAIN prevOutput
          /\ prevOutput[path].kind = "json"
          /\ store[path] # prevOutput[path]

====
